---- MODULE Spec2Model ----
(***************************************************************************)
(* torque: the task lifecycle (model/api.py TaskManager) driven by the     *)
(* webhook performer (work/perform.py TaskPerformer).                      *)
(*                                                                         *)
(* Worker processes run in parallel; inside one process the calls of its   *)
(* TaskPerformer are gevent greenlets that switch only at self.sleep().    *)
(* A database statement is one atomic step; the SELECT and the UPDATE of   *)
(* TaskManager.acquire are two statements.                                 *)
(***************************************************************************)
EXTENDS Integers, Sequences, FiniteSets, TLC

\* ---------------------------------------------------------------- bounds
NumCalls == 3
MaxRetry == 2
MaxTime == 1
MaxTimeout == 1

\* how far utcnow runs when the workers are gone
MaxElapse == 3

\* options.max_task_errors (config.py, processor.py), scaled down from 100
max_task_errors == 2

\* the tasks of the queue the QueueProcessor scrapes
NumQueued == 2

\* QueueProcessor(max_task_errors=..., max_task_delay=...), scaled down
\* from 100 errors and 1111 seconds
qp_max_task_errors == 4
qp_max_task_delay == 2

\* the longest run of empty polls that is counted
MaxIdle == 5

\* the tasks POST / creates, and the longest timeout parameter
MaxCreated == 2
MaxRawLen == 2

\* the tasks fetch_tasks can return to the ConcurrentExecuter, and the
\* tasks count_tasks can count
NumFetched == 3
MaxCount == 1

\* ------------------------------------------------------------- constants
\* the polling delays are floats of seconds; every value _run computes from
\* the defaults is a whole number of 1/320 s
Unit == 320

\* options of the QueueProcessor: 0.2 s, 1.6 s and 240 s in units of
\* 1/320 s, and the two multipliers
min_delay == 64
max_empty_delay == 512
max_error_delay == 76800
empty_multiplier == 2
error_multiplier == 4

\* the status the QueueProcessor got from _dispatch: none yet
NoStatus == 0

\* statuses of _dispatch that are neither 200 nor 204 nor 205
ErrorStatuses == {201, 500}

\* status codes reported for a task inside a 200 response
TaskCodes == {199, 200, 299, 300}

QIds == 1..NumQueued

\* the stored task: every statement of the lifecycle reads or writes one row
TaskIds == {1}
Calls == 1..NumCalls
Timeouts == 1..MaxTimeout

\* constants.TASK_STATUSES (model/constants.py is not part of src/)
TASK_STATUSES == {"pending", "in_progress", "completed", "failed"}

\* greenlet.value of a POST that raised or timed out is None: coded 0
NoResponse == 0

\* the status codes the webhook answers with in the concurrent model: one
\* that completes and one that fails (no response reschedules)
SampleCodes == {200, 404}

Responses == {NoResponse} \cup SampleCodes

\* every outcome a webhook POST can have
AllResponses == {NoResponse} \cup (100..599)

\* TaskPerformer.__init__: one TaskManager per performer, one performer per
\* worker process; calls 2m-1 and 2m are greenlets of process m
ManagerOf(c) == (c + 1) \div 2

Managers == {ManagerOf(c) : c \in Calls}

\* self.task_data = None
NoData == [present |-> FALSE, retry_count |-> 0, timeout |-> 0]

\* an instruction "<a>:<b>:..." after split(':') and map(int, ...): the
\* ones the broker carries name a stored task and a retry count
StoredInstructions == {<<i, k>> : i \in TaskIds, k \in 0..(MaxRetry - 1)}

\* the id beyond the stored ones names no row
MissingInstructions == {<<Cardinality(TaskIds) + 1, k>> : k \in 0..(MaxRetry - 1)}

ValidInstructions == StoredInstructions \cup MissingInstructions

\* these do not unpack into two names
MalformedInstructions == {<<1>>, <<1, 0, 0>>}

Instructions == ValidInstructions \cup MalformedInstructions

\* --------------------------------------------------------------- the due
\* due.DueFactory (model/due.py is not part of src/): the retry weighted
\* offset added to now + timeout
Jitter(retry_count) == retry_count

DueFactory(timeout, retry_count, t) == t + timeout + Jitter(retry_count)

\* orm.Task column onupdate hooks (model/orm.py is not part of src/): an
\* UPDATE that does not name the column gets the hook's value
OnUpdateStatus == "in_progress"

OnUpdateDue(timeout, retry_count, t) == DueFactory(timeout, retry_count, t)

VARIABLES tasks, now, control_flag, mgr, call, acquired, last, qp, queue,
          table, channel, req, ex

vars == <<tasks, now, control_flag, mgr, call, acquired, last, qp, queue,
          table, channel, req, ex>>

\* the task lifecycle and its performers
lifecycle == <<tasks, now, control_flag, mgr, call, acquired, last>>

\* POST /: the rows it inserts, the redis channel and the request
ingress == <<table, channel, req>>

\* what the performers never touch: the QueueProcessor, its queue, POST /
\* and the ConcurrentExecuter
outside == <<qp, queue, table, channel, req, ex>>

\* a performer call that is not running
IdleCall == [pc |-> "idle", instr |-> <<>>, flag0 |-> TRUE]

\* no performer call returned in the step just taken; otherwise: how its
\* while loop ended, the response it saw, the lifecycle method it called and
\* what the call returned
NoReturn == [loop |-> "none", response |-> NoResponse, op |-> "none", ret |-> "none"]

TypeOK ==
    /\ tasks \in [TaskIds -> [retry_count : 0..MaxRetry, status : TASK_STATUSES,
                              due : Nat, timeout : Timeouts]]
    /\ now \in Nat
    /\ control_flag \in BOOLEAN
    /\ acquired \subseteq ValidInstructions
    /\ \A c \in Calls : call[c].pc \in {"idle", "acquire_tx", "waiting", "stopped"}

\* QueueProcessor.__init__ and the first line of _run: running, backoff at
\* min_delay, nothing dispatched, nothing slept, nothing returned
FreshProcessor(finish_on_empty) ==
    [finish_on_empty |-> finish_on_empty, running |-> TRUE, backoff |-> min_delay,
     result |-> "none", status |-> NoStatus, slept |-> 0, idle_run |-> 0]

\* a task as add_task left it in the queue: no error counted, never
\* re-added
AddedTask ==
    [state |-> "queued", error_count |-> 0, readds |-> 0,
     delay |-> [num |-> 0, den |-> 1], ok |-> FALSE]

\* the queue before the QueueProcessor starts
InitQueue ==
    /\ queue = [q \in QIds |-> AddedTask]

\* no request to POST / has been made
NoRequest ==
    [pc |-> "idle", task_id |-> 0, status |-> 0, body |-> "",
     url |-> "None", raw_timeout |-> <<"None">>]

\* no request to the ConcurrentExecuter has been made
NoHandler ==
    [pc |-> "idle", arg |-> "absent", count |-> 0, fetched |-> {},
     task_ids |-> <<>>, callbacks |-> {}, status_codes |-> <<>>,
     status |-> 0, written |-> FALSE, finishes |-> 0]

InitExecuter ==
    /\ ex = NoHandler

\* nothing was enqueued
InitIngress ==
    /\ table = <<>>
    /\ channel = <<>>
    /\ req = NoRequest

\* CreateTask.__call__: a stored task is pending, never tried, due at creation
InitLifecycle ==
    /\ tasks \in [TaskIds -> [retry_count : {0}, status : {"pending"},
                              due : {0}, timeout : Timeouts]]
    /\ now = 0
    /\ control_flag = TRUE
    /\ mgr = [m \in Managers |-> [task_id |-> 0, task_data |-> NoData]]
    /\ call = [c \in Calls |-> IdleCall]
    /\ acquired = {}
    /\ last = NoReturn

\* the components other than the performers never read the stored task:
\* for them it has the shortest timeout
ShortestTimeout ==
    \A id \in TaskIds : \A t \in Timeouts : tasks[id].timeout <= t

\* the stored task and the performers; the QueueProcessor is not started
Init ==
    /\ InitLifecycle
    /\ qp = FreshProcessor(FALSE)
    /\ InitQueue
    /\ InitIngress
    /\ InitExecuter

\* the start of POST / and of the ConcurrentExecuter
InitAside ==
    /\ Init
    /\ ShortestTimeout

\* gevent: another greenlet of the same process is running (it has not
\* reached self.sleep() or returned), so this call cannot run
Busy(c) ==
    \E d \in Calls \ {c} :
        /\ ManagerOf(d) = ManagerOf(c)
        /\ call[d].pc \in {"acquire_tx", "stopped"}

\* query.filter_by(id=id_, retry_count=retry_count).first()
MatchesIdOnly(store, id, retry_count) ==
    /\ id \in DOMAIN store

Matches(store, id, retry_count) ==
    /\ id \in DOMAIN store
    /\ store[id].retry_count = retry_count

\* acquire without the increment of retry_count
AcquireFlushNoIncrement(row, k, t) ==
    [row EXCEPT !.retry_count = k,
                !.status = OnUpdateStatus,
                !.due = OnUpdateDue(row.timeout, k, t)]

\* the flush of acquire: UPDATE tasks SET retry_count = k + 1 WHERE id = pk,
\* with the column hooks for status and due
AcquireFlush(row, k, t) ==
    [row EXCEPT !.retry_count = k + 1,
                !.status = OnUpdateStatus,
                !.due = OnUpdateDue(row.timeout, k + 1, t)]

\* TaskManager._update: values_dict, then
\* query.filter_by(id=self.task_id, retry_count=retry_count).update(values_dict)
UpdateValues(data, values) ==
    values @@ [retry_count |-> data.retry_count, timeout |-> data.timeout]

UpdateRow(row, vd, t) ==
    [retry_count |-> vd.retry_count,
     timeout |-> vd.timeout,
     status |-> IF "status" \in DOMAIN vd THEN vd.status ELSE OnUpdateStatus,
     due |-> IF "due" \in DOMAIN vd THEN vd.due
             ELSE OnUpdateDue(vd.timeout, vd.retry_count, t)]

Update(store, id, data, values, t) ==
    IF Matches(store, id, data.retry_count)
    THEN [store EXCEPT ![id] = UpdateRow(store[id], UpdateValues(data, values), t)]
    ELSE store

\* reschedule with the task's timeout instead of 0
LifecycleValuesKeepTimeout(op, data, t) ==
    CASE op = "reschedule" -> [due |-> DueFactory(data.timeout, data.retry_count, t)]
      [] op = "complete" -> [status |-> "completed"]
      [] op = "fail" -> [status |-> "failed"]

\* TaskManager.reschedule / complete / fail: the values handed to _update
LifecycleValues(op, data, t) ==
    CASE op = "reschedule" -> [due |-> DueFactory(0, data.retry_count, t)]
      [] op = "complete" -> [status |-> "completed"]
      [] op = "fail" -> [status |-> "failed"]

\* the status each lifecycle method returns
LifecycleReturn(op) ==
    CASE op = "reschedule" -> "pending"
      [] op = "complete" -> "completed"
      [] op = "fail" -> "failed"

\* the outcome mapping with 201 on the failing side
OutcomeFrom201(response) ==
    IF response = NoResponse \/ response > 499 THEN "reschedule"
    ELSE IF response >= 201 THEN "fail"
    ELSE "complete"

\* TaskPerformer.__call__: the lifecycle method chosen for a response
Outcome(response) ==
    IF response = NoResponse \/ response > 499 THEN "reschedule"
    ELSE IF response > 201 THEN "fail"
    ELSE "complete"

\* ----------------------------------------------------------------- steps
\* the greenlets of a process are interchangeable: a new call runs in the
\* first idle one
FirstIdle(c) ==
    \A d \in Calls : (d < c /\ ManagerOf(d) = ManagerOf(c)) => call[d].pc # "idle"

\* TaskPerformer.__call__ up to the SELECT of TaskManager.acquire
Call(c, instr) ==
    /\ call[c].pc = "idle"
    /\ FirstIdle(c)
    /\ ~Busy(c)
    /\ IF Len(instr) # 2
       THEN \* map(int, ...) does not unpack: ValueError
            /\ last' = [NoReturn EXCEPT !.ret = "raised"]
            /\ UNCHANGED <<mgr, call>>
       ELSE /\ mgr' = [mgr EXCEPT ![ManagerOf(c)] =
                          [task_id |-> instr[1], task_data |-> NoData]]
            /\ IF Matches(tasks, instr[1], instr[2])
               THEN /\ call' = [call EXCEPT ![c] = [IdleCall EXCEPT !.pc = "acquire_tx",
                                                       !.instr = instr,
                                                       !.flag0 = control_flag]]
                    /\ last' = NoReturn
               ELSE \* acquire returns None: return
                    /\ last' = [NoReturn EXCEPT !.ret = "absent"]
                    /\ UNCHANGED call
    /\ UNCHANGED <<tasks, now, control_flag, acquired, outside>>

\* the commit of acquire, the spawn of the POST and the first test of the
\* control flag: the call sleeps, or skips the loop when the flag is cleared
AcquireCommit(c) ==
    /\ call[c].pc = "acquire_tx"
    /\ LET id == call[c].instr[1]
           k == call[c].instr[2]
           row == AcquireFlush(tasks[id], k, now)
       IN /\ tasks' = [tasks EXCEPT ![id] = row]
          /\ mgr' = [mgr EXCEPT ![ManagerOf(c)].task_data =
                        [present |-> TRUE, retry_count |-> row.retry_count,
                         timeout |-> row.timeout]]
          /\ acquired' = acquired \cup {call[c].instr}
          /\ call' = [call EXCEPT ![c].pc = IF control_flag THEN "waiting" ELSE "stopped"]
    /\ last' = NoReturn
    /\ UNCHANGED <<now, control_flag, outside>>

\* the outcome mapping, the lifecycle call it makes on the performer's
\* manager, and the return
Transition(c, loop, response) ==
    /\ LET m == mgr[ManagerOf(c)]
           op == Outcome(response)
       IN IF ~m.task_data.present
          THEN \* self.task_data['retry_count'] on None: TypeError
               /\ last' = [loop |-> loop, response |-> response, op |-> op,
                           ret |-> "raised"]
               /\ UNCHANGED tasks
          ELSE /\ tasks' = Update(tasks, m.task_id, m.task_data,
                                  LifecycleValues(op, m.task_data, now), now)
               /\ last' = [loop |-> loop, response |-> response, op |-> op,
                           ret |-> LifecycleReturn(op)]
    /\ call' = [call EXCEPT ![c] = IdleCall]
    /\ UNCHANGED <<now, control_flag, mgr, acquired, outside>>

\* the performer wakes from self.sleep(delay) and greenlet.ready(): the
\* POST has finished with a response, or with none (it raised or timed
\* out); break, then the transition
FinishReady(c, response) ==
    /\ call[c].pc = "waiting"
    /\ ~Busy(c)
    /\ Transition(c, "ready", response)

\* the performer wakes, the POST is not ready and the control flag is
\* cleared: the while loop ends with response = None, then the transition
FinishCleared(c) ==
    /\ call[c].pc = "waiting"
    /\ ~Busy(c)
    /\ ~control_flag
    /\ Transition(c, "cleared", NoResponse)

\* the loop was skipped, response = None, then the transition
FinishStopped(c) ==
    /\ call[c].pc = "stopped"
    /\ Transition(c, "never", NoResponse)

\* the supervisor clears the control flag
ClearFlag ==
    /\ control_flag
    /\ control_flag' = FALSE
    /\ last' = NoReturn
    /\ UNCHANGED <<tasks, now, mgr, call, acquired, outside>>

\* utcnow advances
Tick ==
    /\ now < MaxTime
    /\ now' = now + 1
    /\ last' = NoReturn
    /\ UNCHANGED <<tasks, control_flag, mgr, call, acquired, outside>>

Next ==
    \/ \E c \in Calls, instr \in StoredInstructions : Call(c, instr)
    \/ \E c \in Calls : AcquireCommit(c)
    \/ \E c \in Calls, r \in Responses : FinishReady(c, r)
    \/ \E c \in Calls : FinishCleared(c)
    \/ \E c \in Calls : FinishStopped(c)
    \/ ClearFlag
    \/ Tick

Spec == Init /\ [][Next]_vars

\* one performer call at a time, handed any instruction, the webhook
\* answering with any status code
NextOutcome ==
    \/ \E instr \in Instructions : Call(1, instr)
    \/ AcquireCommit(1)
    \/ \E r \in AllResponses : FinishReady(1, r)
    \/ FinishCleared(1)
    \/ FinishStopped(1)
    \/ ClearFlag

SpecOutcome == Init /\ [][NextOutcome]_vars

\* GetDueTasks.__call__: the rows the due scan returns at instant t
GetDueTasks(store, t) ==
    {id \in DOMAIN store : store[id].status = "pending" /\ store[id].due < t}

\* the worker process dies while the call waits for its POST: the call is
\* gone, no lifecycle call is made
Crash(c) ==
    /\ call[c].pc = "waiting"
    /\ call' = [call EXCEPT ![c] = IdleCall]
    /\ last' = NoReturn
    /\ UNCHANGED <<tasks, now, control_flag, mgr, acquired, outside>>

\* utcnow advances past the due instants
Elapse ==
    /\ now < MaxElapse
    /\ now' = now + 1
    /\ last' = NoReturn
    /\ UNCHANGED <<tasks, control_flag, mgr, call, acquired, outside>>

\* one performer call at a time: the webhook answers with a status code
\* that ends the task, or the worker dies first; and the clock
NextDue ==
    \/ \E instr \in StoredInstructions : Call(1, instr)
    \/ AcquireCommit(1)
    \/ \E r \in SampleCodes : FinishReady(1, r)
    \/ Crash(1)
    \/ Elapse

SpecDue == Init /\ [][NextDue]_vars

\* ------------------------------------------------- the queue processor
RECURSIVE GCD(_, _)
GCD(a, b) == IF b = 0 THEN a ELSE GCD(b, a % b)

RECURSIVE Pow(_, _)
Pow(b, n) == IF n = 0 THEN 1 ELSE b * Pow(b, n - 1)

\* 1 + self.min_delay as a fraction in lowest terms
OnePlusMinDelay ==
    LET g == GCD(Unit + min_delay, Unit)
    IN [num |-> (Unit + min_delay) \div g, den |-> Unit \div g]

\* the re-add delay without the cap
TaskDelayUncapped(error_count) ==
    [num |-> Pow(OnePlusMinDelay.num, error_count),
     den |-> Pow(OnePlusMinDelay.den, error_count)]

\* math.pow(1 + self.min_delay, error_count), at most self.max_task_delay
\* (seconds, as a fraction in lowest terms)
TaskDelay(error_count) ==
    LET p == TaskDelayUncapped(error_count)
    IN IF p.num > qp_max_task_delay * p.den
       THEN [num |-> qp_max_task_delay, den |-> 1]
       ELSE p

\* t.get_and_increment_error_count() (client.py is not part of src/): the
\* count after this error
GetAndIncrementErrorCount(t) == t.error_count + 1

\* a task that is re-added once more than max_task_errors allows
HandleTaskOneMore(t, status_code) ==
    IF 200 <= status_code /\ status_code < 300
    THEN [t EXCEPT !.state = "removed", !.ok = TRUE]
    ELSE LET error_count == GetAndIncrementErrorCount(t)
         IN IF error_count > qp_max_task_errors + 1
            THEN [t EXCEPT !.error_count = error_count, !.state = "removed"]
            ELSE [t EXCEPT !.error_count = error_count,
                           !.readds = t.readds + 1,
                           !.delay = TaskDelay(error_count)]

\* _run, the body of the for loop: what the status code reported for a
\* task does to it
HandleTask(t, status_code) ==
    IF 200 <= status_code /\ status_code < 300
    THEN [t EXCEPT !.state = "removed", !.ok = TRUE]
    ELSE LET error_count == GetAndIncrementErrorCount(t)
         IN IF error_count > qp_max_task_errors
            THEN [t EXCEPT !.error_count = error_count, !.state = "removed"]
            ELSE [t EXCEPT !.error_count = error_count,
                           !.readds = t.readds + 1,
                           !.delay = TaskDelay(error_count)]

\* the backoff after a 200 without the floor
BackoffHitNoFloor(backoff) ==
    IF backoff > min_delay THEN backoff \div error_multiplier ELSE backoff

\* _run, status 200: the backoff goes down to min_delay at the lowest
BackoffHit(backoff) ==
    IF backoff > min_delay
    THEN IF backoff \div error_multiplier < min_delay
         THEN min_delay
         ELSE backoff \div error_multiplier
    ELSE backoff

\* the backoff after an empty poll without the ceiling
BackoffEmptyNoCeiling(backoff) == backoff * empty_multiplier

\* _run, status 204 or 205: the backoff goes up to max_empty_delay
BackoffEmpty(backoff) ==
    IF backoff * empty_multiplier > max_empty_delay
    THEN max_empty_delay
    ELSE backoff * empty_multiplier

\* _run, any other status: the backoff goes up to max_error_delay
BackoffError(backoff) ==
    IF backoff * error_multiplier > max_error_delay
    THEN max_error_delay
    ELSE backoff * error_multiplier

\* count_tasks(): the tasks in the queue
CountTasks(q) == Cardinality({t \in DOMAIN q : q[t].state = "queued"})

\* the executer answers 205 whenever check_pending is true
ExecuterEmptyNoCount(check_pending, count) ==
    IF check_pending THEN 205 ELSE 204

\* ConcurrentExecuter.post when fetch_tasks returned no task
ExecuterEmpty(check_pending, count) ==
    IF check_pending /\ count < 1 THEN 205 ELSE 204

\* the run of empty polls since _run started
IdleRun(n, empty) ==
    IF empty /\ n >= 0 /\ n < MaxIdle THEN n + 1 ELSE 0 - 1

\* the loop is at its test and has not returned
InLoop == qp.result = "none"

\* _run, one iteration with status 200: the executer fetched the tasks of
\* fetched and reports a status code for each
RunHit(fetched, codes) ==
    /\ InLoop /\ qp.running
    /\ fetched # {}
    /\ \A t \in fetched : queue[t].state = "queued"
    /\ queue' = [t \in QIds |->
                    IF t \in fetched THEN HandleTask(queue[t], codes[t]) ELSE queue[t]]
    /\ qp' = [qp EXCEPT !.backoff = BackoffHit(qp.backoff),
                        !.status = 200,
                        !.slept = BackoffHit(qp.backoff),
                        !.idle_run = IdleRun(qp.idle_run, FALSE)]
    /\ UNCHANGED <<lifecycle, ingress, ex>>

\* _run, one iteration with status 204 or 205: the executer fetched nothing
RunEmpty ==
    /\ InLoop /\ qp.running
    /\ LET status == ExecuterEmpty(qp.finish_on_empty, CountTasks(queue))
       IN IF status = 205 /\ qp.finish_on_empty
          THEN qp' = [qp EXCEPT !.status = status, !.result = "True"]
          ELSE qp' = [qp EXCEPT !.backoff = BackoffEmpty(qp.backoff),
                               !.status = status,
                               !.slept = BackoffEmpty(qp.backoff),
                               !.idle_run = IdleRun(qp.idle_run, TRUE)]
    /\ UNCHANGED <<lifecycle, queue, ingress, ex>>

\* an iteration with any other status that always backs off
RunErrorGoesOn(status) ==
    /\ InLoop /\ qp.running
    /\ qp' = [qp EXCEPT !.backoff = BackoffError(qp.backoff),
                        !.status = status,
                        !.slept = BackoffError(qp.backoff),
                        !.idle_run = IdleRun(qp.idle_run, FALSE)]
    /\ UNCHANGED <<lifecycle, queue, ingress, ex>>

\* an iteration with any other status that counts an error for every task
RunErrorCountsTasks(status) ==
    /\ InLoop /\ qp.running
    /\ IF qp.finish_on_empty
       THEN qp' = [qp EXCEPT !.status = status, !.result = "False"]
       ELSE qp' = [qp EXCEPT !.backoff = BackoffError(qp.backoff),
                            !.status = status,
                            !.slept = BackoffError(qp.backoff),
                            !.idle_run = IdleRun(qp.idle_run, FALSE)]
    /\ queue' = [t \in QIds |->
                    [queue[t] EXCEPT !.error_count = GetAndIncrementErrorCount(queue[t])]]
    /\ UNCHANGED <<lifecycle, ingress, ex>>

\* _run, one iteration with any other status
RunError(status) ==
    /\ InLoop /\ qp.running
    /\ IF qp.finish_on_empty
       THEN qp' = [qp EXCEPT !.status = status, !.result = "False"]
       ELSE qp' = [qp EXCEPT !.backoff = BackoffError(qp.backoff),
                            !.status = status,
                            !.slept = BackoffError(qp.backoff),
                            !.idle_run = IdleRun(qp.idle_run, FALSE)]
    /\ UNCHANGED <<lifecycle, queue, ingress, ex>>

\* QueueProcessor.stop from another thread
Stop ==
    /\ InLoop /\ qp.running
    /\ qp' = [qp EXCEPT !.running = FALSE]
    /\ UNCHANGED <<lifecycle, queue, ingress, ex>>

\* the while test fails: _run falls off its end
RunExit ==
    /\ InLoop /\ ~qp.running
    /\ qp' = [qp EXCEPT !.result = "None"]
    /\ UNCHANGED <<lifecycle, queue, ingress, ex>>

InitProcessor ==
    /\ InitLifecycle
    /\ ShortestTimeout
    /\ qp \in {FreshProcessor(f) : f \in BOOLEAN}
    /\ InitQueue
    /\ InitIngress
    /\ InitExecuter

NextProcessor ==
    \/ \E fetched \in SUBSET QIds : \E codes \in [fetched -> TaskCodes] :
           RunHit(fetched, codes)
    \/ RunEmpty
    \/ \E status \in ErrorStatuses : RunError(status)
    \/ Stop
    \/ RunExit

SpecProcessor == InitProcessor /\ [][NextProcessor]_vars

\* ------------------------------------------------------------------ POST /
\* the url parameters tried: absent, empty, one the URL pattern rejects and
\* one it accepts
NoUrl == "None"

BadUrl == "not a url"

GoodUrl == "http://example.com/hook"

Urls == {NoUrl, "", BadUrl, GoodUrl}

\* valid_url.match(url)
UrlMatches(url) == url = GoodUrl

\* url and self.valid_url.match(url)
HasValidUrlAnyText(url) == url # NoUrl /\ url # ""

HasValidUrl(url) == url # NoUrl /\ url # "" /\ UrlMatches(url)

\* the timeout parameters tried: texts over these characters, and None when
\* the parameter is absent and no default_timeout is configured
Chars == {"7", "-", "x"}

Digits == {"7"}

NoTimeout == <<"None">>

Texts == UNION {[1..n -> Chars] : n \in 0..MaxRawLen}

RawTimeouts == Texts \cup {NoTimeout}

IsDigits(text) == Len(text) > 0 /\ \A i \in 1..Len(text) : text[i] \in Digits

\* VALID_INT: one or more decimal digits
ValidInt(raw) == raw # NoTimeout /\ IsDigits(raw)

DigitValue(char) == IF char = "7" THEN 7 ELSE 0

RECURSIVE DigitsValue(_)
DigitsValue(text) ==
    IF text = <<>> THEN 0
    ELSE DigitsValue(SubSeq(text, 1, Len(text) - 1)) * 10
         + DigitValue(text[Len(text)])

\* int(raw_timeout): what it raises, "ok" when it returns
IntError(raw) ==
    IF raw = NoTimeout THEN "TypeError"
    ELSE IF IsDigits(raw) THEN "ok"
    ELSE IF Len(raw) > 1 /\ raw[1] = "-" /\ IsDigits(Tail(raw)) THEN "ok"
    ELSE "ValueError"

\* int(raw_timeout): what it returns
IntValue(raw) ==
    IF raw[1] = "-" THEN 0 - DigitsValue(Tail(raw)) ELSE DigitsValue(raw)

\* the texts of the two 400 answers
BadUrlText == "You must provide a valid web hook URL."

BadTimeoutText == "You must provide a valid integer timeout."

\* the request has been answered
Answer(status, body, url, raw) ==
    [pc |-> "idle", task_id |-> 0, status |-> status, body |-> body,
     url |-> url, raw_timeout |-> raw]

\* the row a new Task gets: the column defaults and the given timeout
NewTask(timeout, t) ==
    [status |-> "pending", retry_count |-> 0, due |-> t, timeout |-> timeout]

\* CreateTask: add the task to the session and flush, which inserts the row
\* and gives it the next id
CreateTask(store, timeout, t) == Append(store, NewTask(timeout, t))

\* '{0}:0'.format(task.id)
InstructionWithRetry(task_id) == <<task_id, 1>>

Instruction(task_id) == <<task_id, 0>>

\* EnqueTask.__call__ up to the return of create_task
EnqueTask(url, raw) ==
    /\ req.pc = "idle"
    /\ IF ~HasValidUrl(url)
       THEN /\ req' = Answer(400, BadUrlText, url, raw)
            /\ UNCHANGED table
       ELSE IF IntError(raw) = "ValueError"
       THEN /\ req' = Answer(400, BadTimeoutText, url, raw)
            /\ UNCHANGED table
       ELSE IF IntError(raw) = "TypeError"
       THEN /\ req' = Answer(500, "", url, raw)
            /\ UNCHANGED table
       ELSE /\ Len(table) < MaxCreated
            /\ table' = CreateTask(table, IntValue(raw), now)
            /\ req' = [pc |-> "created", task_id |-> Len(table'),
                       status |-> 0, body |-> "", url |-> url,
                       raw_timeout |-> raw]
    /\ UNCHANGED <<lifecycle, qp, queue, ex, channel>>

\* request.redis.rpush(channel, instruction)
EnquePush ==
    /\ req.pc = "created"
    /\ channel' = Append(channel, Instruction(req.task_id))
    /\ req' = [req EXCEPT !.pc = "pushed"]
    /\ UNCHANGED <<lifecycle, qp, queue, ex, table>>

\* the transaction of a request that raised is aborted: the row the flush
\* inserted is gone
Rollback(store) == SubSeq(store, 1, Len(store) - 1)

\* request.redis.rpush raises: nothing is pushed, the exception leaves the
\* view, the request is answered 500
EnquePushFailsKeepsRow ==
    /\ req.pc = "created"
    /\ req' = Answer(500, "", req.url, req.raw_timeout)
    /\ UNCHANGED <<lifecycle, qp, queue, ex, table, channel>>

EnquePushFails ==
    /\ req.pc = "created"
    /\ table' = Rollback(table)
    /\ req' = Answer(500, "", req.url, req.raw_timeout)
    /\ UNCHANGED <<lifecycle, qp, queue, ex, channel>>

\* response.status_int = 201; return ''
EnqueRespond ==
    /\ req.pc = "pushed"
    /\ req' = Answer(201, "", req.url, req.raw_timeout)
    /\ UNCHANGED <<lifecycle, qp, queue, ex, table, channel>>

NextEnqueue ==
    \/ \E url \in Urls : \E raw \in RawTimeouts : EnqueTask(url, raw)
    \/ EnquePush
    \/ EnquePushFails
    \/ EnqueRespond

SpecEnqueue == InitAside /\ [][NextEnqueue]_vars

\* ------------------------------------------------ the concurrent executer
\* the ids of the tasks fetch_tasks can return
FetchIds == 1..NumFetched

\* the check_pending argument of the request: not given, or one of these
\* texts
NoArgument == "absent"

CheckPendingArgs == {NoArgument, "True", "False", "0"}

\* get_argument without a default answers a missing argument with an
\* HTTPError: 404 or 400, by the version of tornado
MissingArgumentCodes == {400, 404}

\* eval(check_pending), taken as a condition
EvalTruth(arg) == arg = "True"

\* the list with its first x removed, as list.remove leaves it
RECURSIVE Remove(_, _)
Remove(list, x) ==
    IF list = <<>> THEN <<>>
    ELSE IF Head(list) = x THEN Tail(list)
    ELSE <<Head(list)>> \o Remove(Tail(list), x)

\* the list of the ids of a set of tasks, in the order fetched
RECURSIVE ListOf(_)
ListOf(ids) ==
    IF ids = {} THEN <<>>
    ELSE LET least == CHOOSE i \in ids : \A j \in ids : i <= j
         IN <<least>> \o ListOf(ids \ {least})

\* a request handler of its own for each request
Handler(arg, count, fetched) ==
    [NoHandler EXCEPT !.arg = arg, !.count = count, !.fetched = fetched]

\* ConcurrentExecuter.post: fetch_tasks returned the tasks of fetched and
\* count_tasks would count count tasks
Post(fetched, arg, count) ==
    /\ ex.pc \in {"idle", "finished"}
    /\ IF fetched = {}
       THEN IF arg = NoArgument
            THEN \E code \in MissingArgumentCodes :
                     ex' = [Handler(arg, count, fetched) EXCEPT
                               !.pc = "finished", !.status = code,
                               !.finishes = 1]
            ELSE ex' = [Handler(arg, count, fetched) EXCEPT
                           !.pc = "finished",
                           !.status = ExecuterEmpty(EvalTruth(arg), count),
                           !.finishes = 1]
       ELSE ex' = [Handler(arg, count, fetched) EXCEPT
                      !.pc = "waiting",
                      !.task_ids = ListOf(fetched),
                      !.callbacks = fetched]
    /\ UNCHANGED <<lifecycle, qp, queue, ingress>>

\* ConcurrentExecuter._handle_response: the fetch of task_id has ended with
\* this response code
HandleResponse(task_id, code) ==
    /\ ex.pc = "waiting"
    /\ task_id \in ex.callbacks
    /\ LET task_ids == Remove(ex.task_ids, task_id)
           status_codes == [i \in DOMAIN ex.status_codes \cup {task_id} |->
                               IF i = task_id THEN code ELSE ex.status_codes[i]]
       IN IF Len(task_ids) = 0
          THEN ex' = [ex EXCEPT !.pc = "finished",
                                !.task_ids = task_ids,
                                !.callbacks = @ \ {task_id},
                                !.status_codes = status_codes,
                                !.status = 200,
                                !.written = TRUE,
                                !.finishes = @ + 1]
          ELSE ex' = [ex EXCEPT !.task_ids = task_ids,
                                !.callbacks = @ \ {task_id},
                                !.status_codes = status_codes]
    /\ UNCHANGED <<lifecycle, qp, queue, ingress>>

NextExecuter ==
    \/ \E fetched \in SUBSET FetchIds, arg \in CheckPendingArgs, count \in 0..MaxCount :
           Post(fetched, arg, count)
    \/ \E task_id \in FetchIds, code \in TaskCodes : HandleResponse(task_id, code)

SpecExecuter == InitAside /\ [][NextExecuter]_vars

\* ---------------------------------------------------------------- claims
\* the steps the properties are about
Commits(c) == call[c].pc = "acquire_tx" /\ call'[c].pc # "acquire_tx"

Finishes(c) == call[c].pc \in {"waiting", "stopped"} /\ call'[c].pc = "idle"

\* acquire has returned a snapshot to the call
InFlight(c) == call[c].pc \in {"waiting", "stopped"}

\* the row the manager of the call would update
SnapshotMatches(c) ==
    /\ mgr[ManagerOf(c)].task_data.present
    /\ Matches(tasks, mgr[ManagerOf(c)].task_id,
               mgr[ManagerOf(c)].task_data.retry_count)

Terminal == {"completed", "failed"}

\* C1: of the parallel calls that carry the same instruction (id, k) at most
\* one gets a snapshot from acquire; the others get None
AcquisitionUniqueness ==
    \A c, d \in Calls :
        (c # d /\ InFlight(c) /\ InFlight(d)) => call[c].instr # call[d].instr

\* C2: no instruction (id, retry_count) is acquired, and its POST spawned,
\* more than once
OnePostPerInstruction ==
    [][\A c \in Calls : Commits(c) => call[c].instr \notin acquired]_vars

TerminalStickiness ==
    [][\A id \in TaskIds :
          tasks[id].status \in Terminal => tasks'[id] = tasks[id]]_vars

\* C5: when another manager holds a snapshot of the same task with the same
\* retry_count and the row is already terminal, a later complete or fail
\* leaves the stored status as it is
LosersWriteDropped ==
    [][\A c \in Calls :
          (/\ Finishes(c)
           /\ last'.op \in {"complete", "fail"}
           /\ SnapshotMatches(c)
           /\ tasks[mgr[ManagerOf(c)].task_id].status \in Terminal
           /\ \E m \in Managers \ {ManagerOf(c)} :
                  /\ mgr[m].task_id = mgr[ManagerOf(c)].task_id
                  /\ mgr[m].task_data = mgr[ManagerOf(c)].task_data)
          => tasks'[mgr[ManagerOf(c)].task_id].status
                 = tasks[mgr[ManagerOf(c)].task_id].status]_vars

\* C6: a stored retry_count never decreases; it grows by one on a
\* successful acquire and is left alone by reschedule, complete and fail
MonotonicRetryCount ==
    [][\A id \in TaskIds :
          /\ tasks'[id].retry_count >= tasks[id].retry_count
          /\ (\E c \in Calls : Commits(c) /\ call[c].instr[1] = id)
                 => tasks'[id].retry_count = tasks[id].retry_count + 1
          /\ (\E c \in Calls : Finishes(c))
                 => tasks'[id].retry_count = tasks[id].retry_count]_vars

\* the decision table of the performer, row by row
OutcomeTable(response) ==
    CASE response = NoResponse -> "reschedule"
      [] response >= 500 /\ response <= 599 -> "reschedule"
      [] response >= 202 /\ response <= 499 -> "fail"
      [] response >= 100 /\ response <= 201 -> "complete"

\* C7: the call that ends an attempt makes the one lifecycle call the table
\* names for its outcome (none or >= 500 reschedule, 202..499 fail, <= 201
\* complete), for no response and every status code 100..599
OutcomeMapping ==
    [][\A c \in Calls : Finishes(c) =>
          /\ last'.op = OutcomeTable(last'.response)
          /\ last'.op = "reschedule" => last'.ret = "pending"
          /\ last'.op = "fail" => last'.ret = "failed"
          /\ last'.op = "complete" => last'.ret = "completed"
          /\ last'.response = 201 => tasks'[1].status = "completed"
          /\ last'.response \in {202, 499} => tasks'[1].status = "failed"
          /\ last'.response = 500 => tasks'[1] = [tasks[1] EXCEPT
                  !.due = now + Jitter(tasks[1].retry_count),
                  !.status = tasks'[1].status]]_vars

\* C7 witness: an attempt answered 201 has been completed
OutcomeMappingWitness ==
    /\ last.op = "complete"
    /\ last.loop = "ready"
    /\ last.response = 201
    /\ tasks[1].status = "completed"

\* C8: a reschedule that reaches the row leaves it pending, with the same
\* retry_count and due = due(0, retry_count)
RescheduleEffect ==
    [][\A c \in Calls :
          (Finishes(c) /\ last'.op = "reschedule" /\ SnapshotMatches(c)) =>
          LET id == mgr[ManagerOf(c)].task_id
          IN /\ tasks'[id].status = "pending"
             /\ tasks'[id].retry_count = tasks[id].retry_count
             /\ tasks'[id].due = DueFactory(0, tasks[id].retry_count, now)]_vars

NoAcquisitionAfterShutdown ==
    \A c \in Calls : InFlight(c) => call[c].flag0

\* the snapshot the manager of the call holds carries the retry ceiling
AtCeiling(c) ==
    /\ SnapshotMatches(c)
    /\ mgr[ManagerOf(c)].task_data.retry_count >= max_task_errors

\* C11: an attempt acquired with retry_count at max_task_errors ends with
\* the row failed whatever the webhook answered, and is never rescheduled
RetryCeiling ==
    [][\A c \in Calls :
          (Finishes(c) /\ AtCeiling(c)) =>
          /\ last'.op # "reschedule"
          /\ OutcomeTable(last'.response) = "reschedule" =>
                 tasks'[mgr[ManagerOf(c)].task_id].status = "failed"]_vars

\* no call holds or is acquiring the task
Abandoned(id) ==
    \A c \in Calls : call[c].pc # "idle" => call[c].instr[1] # id

\* C12: a task left in_progress by a worker that is gone is returned by the
\* due scan once its due instant has passed
AbandonedReEligible ==
    \A id \in TaskIds :
        (tasks[id].status = "in_progress" /\ tasks[id].due < now /\ Abandoned(id))
            => id \in GetDueTasks(tasks, now)

\* C13: the due of a row changes only in a successful acquire and in
\* reschedule; complete and fail change nothing but its status, and an
\* acquire that finds no row changes no row
DueWrittenOnlyByAcquireAndReschedule ==
    [][\A id \in TaskIds :
          /\ tasks'[id].due # tasks[id].due =>
                 \/ \E c \in Calls : Commits(c) /\ call[c].instr[1] = id
                 \/ \E c \in Calls : Finishes(c) /\ last'.op = "reschedule"
          /\ (\E c \in Calls : Finishes(c) /\ last'.op \in {"complete", "fail"}) =>
                 tasks'[id] = [tasks[id] EXCEPT !.status = tasks'[id].status]
          /\ last'.ret = "absent" => tasks'[id] = tasks[id]]_vars

\* the step is an iteration of _run that got this status and went on to
\* sleep
Polled(status) ==
    /\ qp'.status = status
    /\ qp'.result = "none"
    /\ qp'.running = qp.running
    /\ qp' # qp \/ queue' # queue

\* C14: the delay _run sleeps is always within min_delay and
\* max_error_delay; a 200 divides it by error_multiplier but not below
\* min_delay, a 204 or 205 multiplies it by empty_multiplier up to
\* max_empty_delay, any other status multiplies it by error_multiplier up to
\* max_error_delay
BackoffClamped ==
    [][/\ min_delay <= qp'.backoff /\ qp'.backoff <= max_error_delay
       /\ qp'.slept # qp.slept => qp'.slept = qp'.backoff
       /\ Polled(200) =>
              IF qp.backoff >= min_delay * error_multiplier
              THEN qp'.backoff * error_multiplier = qp.backoff
              ELSE qp'.backoff = min_delay
       /\ (Polled(204) \/ Polled(205)) =>
              IF qp.backoff * empty_multiplier <= max_empty_delay
              THEN qp'.backoff = qp.backoff * empty_multiplier
              ELSE qp'.backoff = max_empty_delay
       /\ (\E status \in ErrorStatuses : Polled(status)) =>
              IF qp.backoff * error_multiplier <= max_error_delay
              THEN qp'.backoff = qp.backoff * error_multiplier
              ELSE qp'.backoff = max_error_delay]_vars

\* C14 witness: a 200 after the backoff had reached max_error_delay
BackoffClampedWitness ==
    /\ qp.status = 200
    /\ qp.result = "none"
    /\ qp.backoff * error_multiplier = max_error_delay
    /\ qp.slept = qp.backoff

\* the sleeps of a run of empty polls as listed: 0.2, 0.4, 0.8, 1.6, 1.6, ...
ListedIdleSleep(n) ==
    IF n >= 4 THEN max_empty_delay ELSE min_delay * Pow(empty_multiplier, n - 1)

\* C15 as stated: the n-th sleep of a fresh processor that gets only
\* empty polls is min_delay doubled n - 1 times, at most max_empty_delay
IdleSequenceFromMinDelay ==
    qp.idle_run >= 1 => qp.slept = ListedIdleSleep(qp.idle_run)

\* the sleeps of a run of empty polls: 0.4, 0.8, 1.6, 1.6, ...
IdleSleep(n) ==
    IF n >= 3 THEN max_empty_delay ELSE min_delay * Pow(empty_multiplier, n)

\* C15 amended: the n-th sleep of a fresh processor that gets only empty
\* polls is min_delay doubled n times, at most max_empty_delay
IdleSequence ==
    qp.idle_run >= 1 => qp.slept = IdleSleep(qp.idle_run)

\* C15 witness: the fourth empty poll in a row slept max_empty_delay again
IdleSequenceWitness ==
    /\ qp.idle_run = 4
    /\ qp.status = 204
    /\ qp.slept = max_empty_delay

\* _run returns in this step
Returns(result) == qp.result = "none" /\ qp'.result = result

\* C16: with finish_on_empty, _run returns True only on a 205, which the
\* executer gives when it fetched nothing and no task is left in the queue;
\* on a 204 it never returns, it backs off
FinishOnEmptySuccess ==
    [][/\ Returns("True") =>
              /\ qp.finish_on_empty
              /\ qp'.status = 205
              /\ CountTasks(queue) = 0
              /\ queue' = queue
       /\ (qp.running /\ qp.result = "none" /\ qp'.result # "none") =>
              qp'.status # 204
       /\ Polled(204) =>
              /\ CountTasks(queue) >= 1 \/ ~qp.finish_on_empty
              /\ qp'.slept = qp'.backoff
              /\ qp'.backoff <= max_empty_delay]_vars

\* C16 witness: _run returned True after a poll with tasks left got a 204
\* and every task was removed
FinishOnEmptySuccessWitness ==
    /\ qp.result = "True"
    /\ qp.status = 205
    /\ qp.backoff > min_delay
    /\ \A t \in QIds : queue[t].state = "removed"

\* C17: with finish_on_empty, _run returns False exactly when _dispatch
\* gave a status other than 200, 204 and 205; an iteration that handles
\* tasks, whatever their status codes, does not return
TaskErrorsDoNotFailRun ==
    [][/\ qp'.finish_on_empty =>
              (qp'.result = "False" <=> qp'.status \notin {NoStatus, 200, 204, 205})
       /\ queue' # queue => (qp'.result = "none" /\ qp'.status = 200)]_vars

\* C17 witness: with finish_on_empty a task was reported with a status
\* code outside 2xx and _run goes on
TaskErrorsDoNotFailRunWitness ==
    /\ qp.finish_on_empty
    /\ qp.result = "none"
    /\ qp.status = 200
    /\ \E t \in QIds : queue[t].error_count >= 1 /\ queue[t].state = "queued"

FracLeq(a, b) == a.num * b.den <= b.num * a.den

\* C19: the delay of a re-add is (1 + min_delay) to the power of the error
\* count, or max_task_delay when that is larger; it is never more than
\* max_task_delay and never less than the delay of the re-add before
ReaddDelayBound ==
    [][\A t \in QIds :
          queue'[t].readds # queue[t].readds =>
          LET d == queue'[t].delay
              n == queue'[t].error_count
              power == [num |-> Pow(OnePlusMinDelay.num, n),
                        den |-> Pow(OnePlusMinDelay.den, n)]
              ceiling == [num |-> qp_max_task_delay, den |-> 1]
          IN /\ FracLeq(d, ceiling)
             /\ FracLeq(queue[t].delay, d)
             /\ IF FracLeq(power, ceiling) THEN d = power ELSE d = ceiling]_vars

\* C19 witness: a task has been re-added with the delay at max_task_delay
\* after a re-add with a shorter delay
ReaddDelayBoundWitness ==
    \E t \in QIds :
        /\ queue[t].state = "queued"
        /\ queue[t].readds >= 2
        /\ queue[t].delay = [num |-> qp_max_task_delay, den |-> 1]


\* the instructions on the channel that name the task
Pushed(chan, task_id) == {i \in DOMAIN chan : chan[i][1] = task_id}

\* C20: a POST / with a valid url and a valid timeout inserts exactly one
\* task, pending with retry_count 0, then pushes exactly one instruction
\* "<id>:0" for that task and, unless the push raised, then answers 201;
\* nothing else inserts a row, pushes or answers 201, and an instruction is
\* only pushed for a row that is already there
EnqueueSuccess ==
    [][/\ (req.pc = "idle" /\ req' # req) =>
              /\ (req'.pc = "created") =
                     (HasValidUrl(req'.url) /\ IntError(req'.raw_timeout) = "ok")
              /\ channel' = channel
              /\ req'.status # 201
       /\ Len(table') > Len(table) =>
              /\ req.pc = "idle" /\ req'.pc = "created"
              /\ Len(table') = Len(table) + 1
              /\ SubSeq(table', 1, Len(table)) = table
              /\ req'.task_id = Len(table')
              /\ table'[req'.task_id].status = "pending"
              /\ table'[req'.task_id].retry_count = 0
       /\ (req.pc = "created" /\ req'.status # 500) =>
              /\ req'.pc = "pushed" /\ req'.task_id = req.task_id
              /\ channel' = Append(channel, <<req.task_id, 0>>)
       /\ channel' # channel =>
              /\ req.pc = "created"
              /\ req.task_id \in DOMAIN table
              /\ Pushed(channel, req.task_id) = {}
       /\ req.pc = "pushed" =>
              /\ req'.pc = "idle" /\ req'.status = 201
              /\ table' = table /\ channel' = channel
              /\ Cardinality(Pushed(channel, req.task_id)) = 1
              /\ table[req.task_id].status = "pending"
              /\ table[req.task_id].retry_count = 0]_vars

\* C20 witness: two requests were answered 201, each with its row and its
\* instruction
EnqueueSuccessWitness ==
    /\ req.pc = "idle" /\ req.status = 201
    /\ Len(table) = 2
    /\ channel = <<<<1, 0>>, <<2, 0>>>>

\* a request to POST / is taken up in this step
Requested == req.pc = "idle" /\ req' # req

\* C21: a request whose url is missing, empty or does not match the URL
\* pattern is answered 400, and neither a row is inserted nor an instruction
\* pushed
BadUrlRejected ==
    [][(Requested /\ req'.url \in {NoUrl, "", BadUrl}) =>
           /\ req'.pc = "idle"
           /\ req'.status = 400
           /\ req'.body = BadUrlText
           /\ table' = table
           /\ channel' = channel]_vars

\* C21 witness: after a task was enqueued, a request with a url the pattern
\* rejects has been answered 400
BadUrlRejectedWitness ==
    /\ req.pc = "idle" /\ req.status = 400
    /\ req.url = BadUrl
    /\ Len(table) = 1 /\ Len(channel) = 1

\* C22: a request with a valid url whose timeout text is not an integer
\* >= 0 is answered 400 with the timeout text, inserts no row and pushes no
\* instruction; every inserted row has timeout >= 0
BadTimeoutRejected ==
    [][/\ (Requested /\ HasValidUrl(req'.url) /\ req'.raw_timeout \in Texts
               /\ ~ValidInt(req'.raw_timeout)) =>
              /\ req'.pc = "idle"
              /\ req'.status = 400
              /\ req'.body = BadTimeoutText
              /\ table' = table
              /\ channel' = channel
       /\ \A id \in DOMAIN table' : table'[id].timeout >= 0]_vars

MalformedDropped ==
    [][(last'.loop = "none" /\ last'.ret # "none") =>
           /\ last'.ret = "absent"
           /\ acquired' = acquired
           /\ tasks' = tasks]_vars

\* C25: an iteration of _run whose dispatch failed (a status other than
\* 200, 204 and 205) removes and re-adds no task and counts no error: the
\* queue is as before; with finish_on_empty _run returns False with the
\* backoff as it was, otherwise only the backoff, the sleep and the status
\* change
BrokerFailureFrame ==
    [][/\ ((\E status \in ErrorStatuses : Polled(status)) \/ Returns("False")) =>
              /\ queue' = queue
              /\ qp'.finish_on_empty = qp.finish_on_empty
              /\ qp'.running = qp.running
              /\ qp'.status \in ErrorStatuses
       /\ Returns("False") =>
              /\ qp.finish_on_empty
              /\ qp'.backoff = qp.backoff /\ qp'.slept = qp.slept
       /\ (\E status \in ErrorStatuses : Polled(status)) =>
              /\ ~qp.finish_on_empty
              /\ qp'.backoff >= qp.backoff]_vars

\* C25 witness: with tasks re-added and still queued, a dispatch failed and
\* _run backed off
BrokerFailureFrameWitness ==
    /\ qp.status \in ErrorStatuses
    /\ qp.result = "none"
    /\ qp.backoff > min_delay
    /\ \E t \in QIds : queue[t].state = "queued" /\ queue[t].readds >= 1

\* C26: acquire goes on to its update only when the stored retry_count of
\* the task equals the one of the instruction; otherwise (another count, or
\* no such task) it returns None, every row is as before, the manager's
\* task_data is None and the call is over without a lifecycle call
FailedAcquireFrame ==
    [][\A c \in Calls :
          /\ (call[c].pc = "idle" /\ call'[c].pc = "acquire_tx") =>
                 /\ call'[c].instr[1] \in TaskIds
                 /\ tasks[call'[c].instr[1]].retry_count = call'[c].instr[2]
          /\ (call[c].pc = "idle" /\ mgr' # mgr /\ call' = call) =>
                 /\ last'.ret = "absent" /\ last'.op = "none"
                 /\ tasks' = tasks
                 /\ acquired' = acquired
                 /\ \E m \in Managers :
                        /\ mgr'[m].task_data = NoData
                        /\ \A n \in Managers \ {m} : mgr'[n] = mgr[n]]_vars

\* C26 witness: the task was acquired and handed back, and an acquire with
\* the retry count of before has returned None
FailedAcquireFrameWitness ==
    /\ last.ret = "absent"
    /\ tasks[1].retry_count = 1
    /\ mgr[1].task_id = 1
    /\ mgr[1].task_data = NoData
    /\ call[1].pc = "idle"

\* C27 as stated: the lifecycle call a performer call ends with is made
\* with the task and the snapshot that this call acquired, whatever its
\* sibling on the same TaskManager acquired meanwhile, and does not raise
AttemptIsolation ==
    [][\A c \in Calls :
          Finishes(c) =>
              /\ mgr[ManagerOf(c)].task_id = call[c].instr[1]
              /\ mgr[ManagerOf(c)].task_data.present
              /\ mgr[ManagerOf(c)].task_data.retry_count = call[c].instr[2] + 1
              /\ last'.ret # "raised"]_vars

\* C28 as stated: for a non-empty fetch the handler finishes once, with
\* 200, when the callback of every fetched task has fired and not before,
\* and the mapping written has one status code for each fetched task; for
\* an empty fetch it answers 205 when check_pending is true and no task is
\* pending, and 204 otherwise
BatchCompletion ==
    [][/\ ex'.finishes <= 1
       /\ (ex.pc = "waiting" /\ ex' # ex) =>
              /\ ex'.fetched = ex.fetched
              /\ Cardinality(ex'.callbacks) = Cardinality(ex.callbacks) - 1
              /\ (ex'.pc = "finished") = (ex'.callbacks = {})
              /\ ex'.pc = "finished" =>
                     /\ ex'.status = 200 /\ ex'.written
                     /\ ex'.finishes = 1
                     /\ DOMAIN ex'.status_codes = ex'.fetched
       /\ (ex.pc # "waiting" /\ ex' # ex /\ ex'.fetched # {}) =>
              /\ ex'.pc = "waiting" /\ ex'.finishes = 0
              /\ ex'.callbacks = ex'.fetched
       /\ (ex.pc # "waiting" /\ ex' # ex /\ ex'.fetched = {}) =>
              /\ ex'.pc = "finished" /\ ex'.finishes = 1
              /\ ex'.status = IF ex'.arg = "True" /\ ex'.count = 0
                              THEN 205 ELSE 204]_vars

====
